---- MODULE Spec2Model ----
(***************************************************************************)
(* Model of the options contract selection of the default strategy        *)
(* (findBestOptionsContract) against the Alpaca options provider.         *)
(*                                                                         *)
(* One invocation of the async function is a process whose steps are the  *)
(* stretches of code between two awaits: the code that runs when an       *)
(* awaited provider call settles, up to and including the issue of the    *)
(* next call, is one action.                                               *)
(*                                                                         *)
(* Units.  Calendar days are integers counted from the current UTC day    *)
(* (day 0); the clock `now` is the number of ticks elapsed since the      *)
(* midnight of day 0.  Strikes and underlying prices are whole dollars,   *)
(* option quotes are cents, deltas and target_delta are hundredths,       *)
(* options_max_pct_per_trade is a percentage.  All arithmetic of the code *)
(* is carried out exactly on these integers (both sides of a comparison   *)
(* are multiplied by the common denominator).                              *)
(***************************************************************************)
EXTENDS Integers, Sequences, FiniteSets, TLC

\* ------------------------------------------------------------------ bounds

\* Longest list of expirations the provider returns.
MaxExpirations == 2
\* Most contracts on one side of a chain the provider returns.
MaxChainLen == 7
\* Clock ticks per day (time-of-day resolution of `now`).
TicksPerDay == 2

\* -------------------------------------------------------- program constants

\* sortedContracts.slice(0, 5)
MaxProbes == 5

\* ---------------------------------------------------------------- helpers

Abs(x) == IF x < 0 THEN -x ELSE x

Min(a, b) == IF a < b THEN a ELSE b

\* Math.ceil(num / den) for den > 0
CeilDiv(num, den) == -((-num) \div den)

\* ------------------------------------------------------------ input spaces

\* Expiration days the provider may list.
ExpDays == {0, 1, 2, 3, 5}

\* getExpirations returns unique dates in ascending order.
RECURSIVE AscendingSeqs(_, _)
AscendingSeqs(days, n) ==
    IF n = 0 THEN {<<>>}
    ELSE LET shorter == AscendingSeqs(days, n - 1)
         IN  shorter \cup
             {Append(s, d) : s \in {t \in shorter : Len(t) = n - 1},
                             d \in days}

IsAscending(s) == \A i \in 1..(Len(s) - 1) : s[i] < s[i + 1]

ExpirationLists == {s \in AscendingSeqs(ExpDays, MaxExpirations) : IsAscending(s)}

\* Configurations of the strategy (ctx.config).
Configs ==
    [options_enabled : BOOLEAN,
     options_min_dte : {1},
     options_max_dte : {4},
     options_target_delta : {70},
     options_min_delta : {30},
     options_max_delta : {70},
     options_max_pct_per_trade : {5}]

Directions == {"bullish", "bearish"}

Equities == {10000}

\* Strike of the i-th contract of one side of a chain: the provider sorts
\* each side by strike, the first listing carries an unparsable/zero strike.
Strike(i) == IF i = 1 THEN 0 ELSE 91 + 2 * i

Contract(type, exp, i) == [symbol |-> <<type, exp, i>>, strike |-> Strike(i)]

Side(type, exp, n) == [i \in 1..n |-> Contract(type, exp, i)]

\* getChain answers for the requested expiration with n calls and m puts.
ChainsFor(exp) ==
    {[calls |-> Side("call", exp, n), puts |-> Side("put", exp, m)] :
        n \in 0..MaxChainLen, m \in 0..MaxChainLen}

NoChain == [calls |-> <<>>, puts |-> <<>>]

\* Snapshots of the underlying (marketData.getSnapshot).
Underlying(hasTrade, trade, hasQuote, ask, bid) ==
    [present |-> TRUE, hasTrade |-> hasTrade, trade |-> trade,
     hasQuote |-> hasQuote, ask |-> ask, bid |-> bid]

NoUnderlying ==
    [present |-> FALSE, hasTrade |-> FALSE, trade |-> 0,
     hasQuote |-> FALSE, ask |-> 0, bid |-> 0]

UnderlyingSnapshots ==
    {Underlying(TRUE, 100, TRUE, 101, 99),
     Underlying(TRUE, 0, TRUE, 98, 97),
     Underlying(FALSE, 0, TRUE, 0, 0)}

\* Snapshots of one option contract (options.getSnapshot).
OptSnap(hasDelta, delta, hasQuote, bid, ask) ==
    [present |-> TRUE, hasDelta |-> hasDelta, delta |-> delta,
     hasQuote |-> hasQuote, bid |-> bid, ask |-> ask]

NoOptSnap ==
    [present |-> FALSE, hasDelta |-> FALSE, delta |-> 0,
     hasQuote |-> FALSE, bid |-> 0, ask |-> 0]

\* mid 4.80: one contract fits a budget of 500
AffordableSnap == OptSnap(TRUE, 50, TRUE, 470, 490)

\* mid 6.00: no contract fits a budget of 500
ExpensiveSnap == OptSnap(TRUE, 50, TRUE, 590, 610)

OptSnapshots == {AffordableSnap, ExpensiveSnap}

\* A wider market for the estimator and the gates, on short chains.

\* Most contracts on one side of a chain of the wider market.
MarketChainLen == 3

MarketConfigs ==
    [options_enabled : {TRUE},
     options_min_dte : {1},
     options_max_dte : {4},
     options_target_delta : {50, 70},
     options_min_delta : {10, 30},
     options_max_delta : {70},
     options_max_pct_per_trade : {5}]

MarketEquities == {10000, 25000}

\* trade, then ask, then bid; fields zero or absent
MarketUnderlyingSnapshots ==
    {Underlying(TRUE, 100, TRUE, 101, 99),
     Underlying(TRUE, 0, TRUE, 98, 97),
     Underlying(TRUE, 0, TRUE, 0, 97),
     Underlying(FALSE, 0, TRUE, 102, 101),
     Underlying(TRUE, 0, TRUE, 0, 0),
     Underlying(FALSE, 0, FALSE, 0, 0)}

\* greeks absent; delta under, at, inside and over the band, of calls and
\* of puts; quote absent, one-sided, wide (50 / 490) and tight; mid prices
\* 4.80 and 6.00
MarketOptSnapshots ==
    {AffordableSnap,
     ExpensiveSnap,
     OptSnap(FALSE, 0, TRUE, 470, 490),
     OptSnap(TRUE, 20, TRUE, 470, 490),
     OptSnap(TRUE, 30, TRUE, 470, 490),
     OptSnap(TRUE, 70, TRUE, 470, 490),
     OptSnap(TRUE, 80, TRUE, 470, 490),
     OptSnap(TRUE, -50, TRUE, 470, 490),
     OptSnap(TRUE, -80, TRUE, 470, 490),
     OptSnap(TRUE, 50, FALSE, 0, 0),
     OptSnap(TRUE, 50, TRUE, 0, 490),
     OptSnap(TRUE, 50, TRUE, 470, 0),
     OptSnap(TRUE, 50, TRUE, 440, 490),
     OptSnap(TRUE, 50, TRUE, 442, 490)}

\* Quotes a provider may hand over unchecked: negative, zero, crossed.
QuotePrices == {-490, -470, 0, 470, 490}

QuoteOptSnapshots ==
    {OptSnap(TRUE, 50, TRUE, bid, ask) : bid \in QuotePrices, ask \in QuotePrices}

\* The budget share may be 0 (options_max_pct_per_trade: min 0, max 0.25).
QuoteConfigs ==
    [options_enabled : {TRUE},
     options_min_dte : {1},
     options_max_dte : {4},
     options_target_delta : {70},
     options_min_delta : {30},
     options_max_delta : {70},
     options_max_pct_per_trade : {0, 5}]

\* ------------------------------------------------- the code's computations

\* (variant: Math.floor in place of Math.ceil)
DTEFloor(exp, today) == -CeilDiv(today - exp * TicksPerDay, TicksPerDay)

\* Math.ceil((expDate.getTime() - today.getTime()) / (1000 * 60 * 60 * 24))
DTE(exp, today) == CeilDiv(exp * TicksPerDay - today, TicksPerDay)

\* (variant: the lower end of the window is not tested)
InWindowNoMinimum(exp, today, cfg) ==
    DTE(exp, today) <= cfg.options_max_dte

\* dte >= options_min_dte && dte <= options_max_dte
InWindow(exp, today, cfg) ==
    /\ DTE(exp, today) >= cfg.options_min_dte
    /\ DTE(exp, today) <= cfg.options_max_dte

\* (variant: no filter)
ValidExpirationsUnfiltered(exps, today, cfg) == exps

\* expirations.filter(...)
ValidExpirations(exps, today, cfg) ==
    SelectSeq(exps, LAMBDA e : InWindow(e, today, cfg))

\* |dte - targetDTE| with targetDTE = (min_dte + max_dte) / 2, doubled
DteDistance2(exp, today, cfg) ==
    Abs(2 * DTE(exp, today) - (cfg.options_min_dte + cfg.options_max_dte))

\* (variant: a tie replaces the running best)
CloserExpirationOnTie(best, exp, today, cfg) ==
    IF DteDistance2(exp, today, cfg) <= DteDistance2(best, today, cfg)
    THEN exp ELSE best

\* the reducer: a later expiration replaces the running best only when it is
\* strictly closer to targetDTE
CloserExpiration(best, exp, today, cfg) ==
    IF DteDistance2(exp, today, cfg) < DteDistance2(best, today, cfg)
    THEN exp ELSE best

RECURSIVE ReduceExpirations(_, _, _, _, _)
ReduceExpirations(valid, i, best, today, cfg) ==
    IF i > Len(valid) THEN best
    ELSE ReduceExpirations(valid, i + 1,
                           CloserExpiration(best, valid[i], today, cfg),
                           today, cfg)

\* validExpirations.reduce(..., validExpirations[0])
BestExpiration(valid, today, cfg) ==
    ReduceExpirations(valid, 1, valid[1], today, cfg)

\* (variant: the sides are exchanged)
ContractsOfSwapped(ch, dir) == IF dir = "bullish" THEN ch.puts ELSE ch.calls

\* direction === "bullish" ? chain.calls : chain.puts
ContractsOf(ch, dir) == IF dir = "bullish" THEN ch.calls ELSE ch.puts

\* (variant: the bid is consulted before the ask)
StockPriceBidFirst(snap) ==
    IF snap.present /\ snap.hasTrade /\ snap.trade # 0 THEN snap.trade
    ELSE IF snap.present /\ snap.hasQuote /\ snap.bid # 0 THEN snap.bid
    ELSE IF snap.present /\ snap.hasQuote /\ snap.ask # 0 THEN snap.ask
    ELSE 0

\* latest_trade?.price || latest_quote?.ask_price || latest_quote?.bid_price || 0
StockPrice(snap) ==
    IF snap.present /\ snap.hasTrade /\ snap.trade # 0 THEN snap.trade
    ELSE IF snap.present /\ snap.hasQuote /\ snap.ask # 0 THEN snap.ask
    ELSE IF snap.present /\ snap.hasQuote /\ snap.bid # 0 THEN snap.bid
    ELSE 0

\* (variant: the offset is added for bullish and subtracted for bearish)
TargetStrike500Swapped(price, dir, cfg) ==
    IF dir = "bullish"
    THEN price * (500 + (cfg.options_target_delta - 50))
    ELSE price * (500 - (cfg.options_target_delta - 50))

\* 500 * targetStrike:
\* stockPrice * (1 -/+ (options_target_delta - 0.5) * 0.2)
TargetStrike500(price, dir, cfg) ==
    IF dir = "bullish"
    THEN price * (500 - (cfg.options_target_delta - 50))
    ELSE price * (500 + (cfg.options_target_delta - 50))

\* 500 * Math.abs(c.strike - targetStrike)
StrikeDistance500(c, target500) == Abs(500 * c.strike - target500)

\* (variant: an element goes in front of the elements it ties with)
RECURSIVE InsertByDistanceUnstable(_, _, _)
InsertByDistanceUnstable(sorted, c, target500) ==
    IF sorted = <<>> THEN <<c>>
    ELSE IF StrikeDistance500(Head(sorted), target500)
              < StrikeDistance500(c, target500)
         THEN <<Head(sorted)>>
                 \o InsertByDistanceUnstable(Tail(sorted), c, target500)
         ELSE <<c>> \o sorted

\* Array.prototype.sort is stable: an element goes behind every element that
\* does not compare greater than it.
RECURSIVE InsertByDistance(_, _, _)
InsertByDistance(sorted, c, target500) ==
    IF sorted = <<>> THEN <<c>>
    ELSE IF StrikeDistance500(Head(sorted), target500)
              <= StrikeDistance500(c, target500)
         THEN <<Head(sorted)>> \o InsertByDistance(Tail(sorted), c, target500)
         ELSE <<c>> \o sorted

RECURSIVE SortByDistance(_, _)
SortByDistance(cs, target500) ==
    IF cs = <<>> THEN <<>>
    ELSE InsertByDistance(SortByDistance(SubSeq(cs, 1, Len(cs) - 1), target500),
                          cs[Len(cs)], target500)

\* (variant: filtered but left in chain order)
SortedContractsUnsorted(cs, target500) ==
    SelectSeq(cs, LAMBDA c : c.strike > 0)

\* contracts.filter((c) => c.strike > 0).sort(...)
SortedContracts(cs, target500) ==
    SortByDistance(SelectSeq(cs, LAMBDA c : c.strike > 0), target500)

\* (variant: no slice)
CandidatesUnsliced(sorted) == sorted

\* (variant: slice(0, 6))
CandidatesOneMore(sorted) == SubSeq(sorted, 1, Min(MaxProbes + 1, Len(sorted)))

\* sortedContracts.slice(0, 5)
Candidates(sorted) == SubSeq(sorted, 1, Min(MaxProbes, Len(sorted)))

\* (variant: the upper limit is compared with the signed delta)
DeltaRejectedSignedMax(snap, cfg) ==
    \/ ~snap.hasDelta
    \/ Abs(snap.delta) < cfg.options_min_delta
    \/ snap.delta > cfg.options_max_delta

\* absDelta === null || absDelta < min_delta || absDelta > max_delta
DeltaRejected(snap, cfg) ==
    \/ ~snap.hasDelta
    \/ Abs(snap.delta) < cfg.options_min_delta
    \/ Abs(snap.delta) > cfg.options_max_delta

\* latest_quote?.bid_price || 0
BidOf(snap) == IF snap.hasQuote THEN snap.bid ELSE 0

\* latest_quote?.ask_price || 0
AskOf(snap) == IF snap.hasQuote THEN snap.ask ELSE 0

\* (variant: bid === 0 && ask === 0)
NoMarketBothZero(snap) == BidOf(snap) = 0 /\ AskOf(snap) = 0

\* bid === 0 || ask === 0
NoMarket(snap) == BidOf(snap) = 0 \/ AskOf(snap) = 0

\* (ask - bid) / ask > 0.1 of IEEE division: dividing by a negative ask
\* turns the comparison, dividing by zero gives +Infinity for bid < 0 and
\* -Infinity or NaN otherwise
SpreadTooWide(snap) ==
    IF AskOf(snap) > 0
    THEN 10 * (AskOf(snap) - BidOf(snap)) > AskOf(snap)
    ELSE IF AskOf(snap) < 0
    THEN 10 * (AskOf(snap) - BidOf(snap)) < AskOf(snap)
    ELSE BidOf(snap) < 0

\* midPrice in half cents: (bid + ask) / 2
MidPrice2(snap) == BidOf(snap) + AskOf(snap)

\* A JavaScript number that is an integer, an infinity or NaN.
JsInt(v) == [nan |-> FALSE, inf |-> 0, v |-> v]
JsInf(sign) == [nan |-> FALSE, inf |-> sign, v |-> 0]
JsNaN == [nan |-> TRUE, inf |-> 0, v |-> 0]

Sign(x) == IF x > 0 THEN 1 ELSE IF x < 0 THEN -1 ELSE 0

\* Math.floor(num / den) of IEEE division
JsFloorDiv(num, den) ==
    IF den = 0
    THEN IF num = 0 THEN JsNaN ELSE JsInf(Sign(num))
    ELSE IF den > 0 THEN JsInt(num \div den)
    ELSE JsInt((-num) \div (-den))

\* (variant: Math.ceil)
MaxContractsCeil(snap, eq, cfg) ==
    IF MidPrice2(snap) > 0
    THEN JsInt(CeilDiv(2 * eq * cfg.options_max_pct_per_trade,
                       100 * MidPrice2(snap)))
    ELSE JsFloorDiv(2 * eq * cfg.options_max_pct_per_trade,
                    100 * MidPrice2(snap))

\* Math.floor(maxCost / (midPrice * 100)), maxCost = equity * max_pct:
\* equity * pct / 100 dollars over (bid + ask) / 2 dollars
MaxContracts(snap, eq, cfg) ==
    JsFloorDiv(2 * eq * cfg.options_max_pct_per_trade, 100 * MidPrice2(snap))

\* (variant: maxContracts === 0)
BelowOneZeroOnly(x) == ~x.nan /\ x.inf = 0 /\ x.v = 0

\* maxContracts < 1
BelowOne(x) == ~x.nan /\ (x.inf = -1 \/ (x.inf = 0 /\ x.v < 1))

\* the gates of the qualification loop, in the code's order
Rejected(snap, eq, cfg) ==
    \/ DeltaRejected(snap, cfg)
    \/ NoMarket(snap)
    \/ SpreadTooWide(snap)
    \/ BelowOne(MaxContracts(snap, eq, cfg))

\* ------------------------------------------- capping a snapshot by volume
\* capByVolumeKeepingPinnedMap and capByVolumeKeepingPinnedRecord.  A Map and
\* a Record are the sequence of their own entries in iteration order
\* (insertion order; no key is integer-like).  A Record, a plain object, also
\* answers a property read and the `in` operator for the names it inherits
\* from Object.prototype.

\* Largest volume of a symbol of a snapshot.
MaxVolume == 2
\* Most symbols handed over as pinned.
MaxPinned == 2
\* Largest cap (maxSymbols) asked for.
MaxCap == 3

\* Symbols of a snapshot, and one more that is pinned only.
CapSymbols == {"A", "B", "C"}
PinnedOnly == "Z"

\* Names every plain object inherits (constructor, toString, valueOf, ...).
ObjectPrototypeNames == {"constructor"}

\* What reading an inherited name from a plain object gives: a function of
\* Object.prototype, an object without a volume.
Inherited(name) == [symbol |-> name, value |-> [inherited |-> name]]

CapEntry(symbol, volume) == [symbol |-> symbol, value |-> [volume |-> volume]]

\* Sequences of entries with pairwise different keys.
RECURSIVE CapEntrySeqs(_)
CapEntrySeqs(symbols) ==
    {<<>>} \cup
    UNION {{<<CapEntry(sym, v)>> \o rest :
               rest \in CapEntrySeqs(symbols \ {sym}), v \in 0..MaxVolume} :
           sym \in symbols}

CapSnapshots == CapEntrySeqs(CapSymbols)

\* pinnedSymbols: any iterable of strings, repetitions and absent symbols
\* included.
RECURSIVE PinnedLists(_)
PinnedLists(n) ==
    IF n = 0 THEN {<<>>}
    ELSE LET shorter == PinnedLists(n - 1)
         IN  shorter \cup
             {Append(p, sym) : p \in {q \in shorter : Len(q) = n - 1},
                               sym \in CapSymbols \cup {PinnedOnly}
                                          \cup ObjectPrototypeNames}

\* new Set(pinnedSymbols): first occurrences, in order
RECURSIVE SetOf(_)
SetOf(list) ==
    IF list = <<>> THEN <<>>
    ELSE LET front == SetOf(SubSeq(list, 1, Len(list) - 1))
             last == list[Len(list)]
         IN  IF \E i \in 1..Len(front) : front[i] = last
             THEN front ELSE Append(front, last)

\* snapshot.has(symbol), symbol in cache
Has(entries, symbol) == \E i \in 1..Len(entries) : entries[i].symbol = symbol

\* the entry snapshot.get(symbol) / cache[symbol] is read from
EntryOf(entries, symbol) ==
    entries[CHOOSE i \in 1..Len(entries) : entries[i].symbol = symbol]

\* (variant: no pinned symbol is looked up)
PinnedPresentNone(snap, pinnedSet) == <<>>

\* for (const symbol of pinnedSet) { value = snapshot.get(symbol);
\*                                   if (value) pinnedPresent.push(...) }
RECURSIVE PinnedPresent(_, _)
PinnedPresent(snap, pinnedSet) ==
    IF pinnedSet = <<>> THEN <<>>
    ELSE IF Has(snap, Head(pinnedSet))
         THEN <<EntryOf(snap, Head(pinnedSet))>>
                 \o PinnedPresent(snap, Tail(pinnedSet))
         ELSE PinnedPresent(snap, Tail(pinnedSet))

\* b[1].volume ?? 0
VolumeOf(entry) ==
    IF "volume" \in DOMAIN entry.value THEN entry.value.volume ELSE 0

\* (variant: ascending, an entry goes behind every entry of at most its
\* volume)
RECURSIVE InsertByVolumeAscending(_, _)
InsertByVolumeAscending(sorted, e) ==
    IF sorted = <<>> THEN <<e>>
    ELSE IF VolumeOf(Head(sorted)) <= VolumeOf(e)
         THEN <<Head(sorted)>> \o InsertByVolumeAscending(Tail(sorted), e)
         ELSE <<e>> \o sorted

\* the comparator (b.volume ?? 0) - (a.volume ?? 0) under a stable sort: an
\* entry goes behind every entry of at least its volume
RECURSIVE InsertByVolume(_, _)
InsertByVolume(sorted, e) ==
    IF sorted = <<>> THEN <<e>>
    ELSE IF VolumeOf(Head(sorted)) >= VolumeOf(e)
         THEN <<Head(sorted)>> \o InsertByVolume(Tail(sorted), e)
         ELSE <<e>> \o sorted

\* (variant: the entries are left in the order they were collected)
SortByVolumeNot(entries) == entries

\* entries.sort((a, b) => (b[1].volume ?? 0) - (a[1].volume ?? 0))
RECURSIVE SortByVolume(_)
SortByVolume(entries) ==
    IF entries = <<>> THEN <<>>
    ELSE InsertByVolume(SortByVolume(SubSeq(entries, 1, Len(entries) - 1)),
                        entries[Len(entries)])

\* entries.slice(0, n), n >= 0
Slice(entries, n) == SubSeq(entries, 1, Min(n, Len(entries)))

\* the entries of the input that result does not hold yet
Remaining(entries, res) ==
    SelectSeq(entries, LAMBDA e : ~Has(res, e.symbol))

capByVolumeKeepingPinnedMap(snap, maxSymbols, pinnedSymbols) ==
    IF maxSymbols <= 0 THEN <<>>
    ELSE IF Len(snap) <= maxSymbols THEN snap
    ELSE LET pinnedPresent ==
                 SortByVolume(PinnedPresent(snap, SetOf(pinnedSymbols)))
             res == Slice(pinnedPresent, maxSymbols)
         IN  IF Len(res) >= maxSymbols THEN res
             ELSE res \o Slice(SortByVolume(Remaining(snap, res)),
                               maxSymbols - Len(res))

\* Object.keys(cache)
Keys(cache) == [i \in 1..Len(cache) |-> cache[i].symbol]

\* symbol in obj: an own key or an inherited name
In(symbol, obj) == Has(obj, symbol) \/ symbol \in ObjectPrototypeNames

\* obj[symbol], when truthy: the own entry, else the inherited function
RecordRead(obj, symbol) ==
    IF Has(obj, symbol) THEN <<EntryOf(obj, symbol)>>
    ELSE IF symbol \in ObjectPrototypeNames THEN <<Inherited(symbol)>>
    ELSE <<>>

\* for (const symbol of pinnedSet) { value = cache[symbol];
\*                                   if (value) pinnedPresent.push(...) }
RECURSIVE RecordPinnedPresent(_, _)
RecordPinnedPresent(cache, pinnedSet) ==
    IF pinnedSet = <<>> THEN <<>>
    ELSE RecordRead(cache, Head(pinnedSet))
            \o RecordPinnedPresent(cache, Tail(pinnedSet))

\* for (const symbol of keys) { if (symbol in result) continue;
\*                              remaining.push([symbol, cache[symbol]]) }
RECURSIVE RecordRemaining(_, _, _)
RecordRemaining(cache, keys, res) ==
    IF keys = <<>> THEN <<>>
    ELSE IF In(Head(keys), res)
         THEN RecordRemaining(cache, Tail(keys), res)
         ELSE RecordRead(cache, Head(keys))
                 \o RecordRemaining(cache, Tail(keys), res)

capByVolumeKeepingPinnedRecord(cache, maxSymbols, pinnedSymbols) ==
    LET keys == Keys(cache)
    IN  IF maxSymbols <= 0 THEN <<>>
        ELSE IF Len(keys) <= maxSymbols THEN cache
        ELSE LET pinnedPresent ==
                     SortByVolume(RecordPinnedPresent(cache, SetOf(pinnedSymbols)))
                 res == Slice(pinnedPresent, maxSymbols)
             IN  IF Len(Keys(res)) >= maxSymbols THEN res
                 ELSE res \o Slice(SortByVolume(RecordRemaining(cache, keys, res)),
                                   maxSymbols - Len(Keys(res)))

\* ------------------------------------------------------------------ state

VARIABLES
    config,            \* ctx.config
    direction,         \* "bullish" | "bearish"
    equity,            \* account equity, dollars
    pc,                \* where the invocation stands
    expirations,       \* what getExpirations returned
    today,             \* new Date(): ticks since the midnight of day 0
    validExpirations,
    bestExpiration,    \* -1 until chosen
    chain,             \* what getChain returned
    contracts,
    snapshot,          \* snapshot of the underlying (null after a failure)
    stockPrice,
    targetStrike500,   \* 500 * targetStrike, 0 until computed
    sortedContracts,
    idx,               \* position of the loop in sortedContracts.slice(0, 5)
    result,            \* what the invocation returned
    log,               \* ctx.log events, in order
    calls,             \* provider calls issued, in order
    returned,          \* number of provider calls that have settled
    failed,            \* the provider call that threw, "none" if none did
    probed,            \* option snapshots received, in order
    capSnapshot,       \* capByVolumeKeepingPinned*: the entries passed in
    capMaxSymbols,     \* its maxSymbols
    capPinned,         \* its pinnedSymbols
    capMapResult,      \* what capByVolumeKeepingPinnedMap returned
    capRecordResult,   \* what capByVolumeKeepingPinnedRecord returned
    capPc              \* which of the two have been applied

capVars == <<capSnapshot, capMaxSymbols, capPinned, capMapResult,
             capRecordResult, capPc>>

vars == <<config, direction, equity, pc, expirations, today, validExpirations,
          bestExpiration, chain, contracts, snapshot, stockPrice,
          targetStrike500, sortedContracts, idx, result, log, calls, returned,
          failed, probed, capVars>>

inputs == <<config, direction, equity>>

\* Clock readings of new Date() within the current day.
Clock == 0..(TicksPerDay - 1)

Outcome(kind, contract, exp, snap, n, type) ==
    [kind |-> kind, symbol |-> contract.symbol, strike |-> contract.strike,
     expiration |-> exp, hasDelta |-> snap.hasDelta, delta |-> snap.delta,
     mid_price2 |-> MidPrice2(snap), max_contracts |-> n, option_type |-> type]

NoContract == [symbol |-> <<>>, strike |-> 0]

Pending == Outcome("pending", NoContract, -1, NoOptSnap, JsInt(0), "")

\* return null
NotFound == Outcome("NotFound", NoContract, -1, NoOptSnap, JsInt(0), "")

\* an exception leaving the function
Thrown == Outcome("thrown", NoContract, -1, NoOptSnap, JsInt(0), "")

\* return { symbol, strike, expiration, delta, mid_price, max_contracts,
\*          option_type }
Selected(contract, snap) ==
    Outcome("Selected", contract, bestExpiration, snap,
            MaxContracts(snap, equity, config),
            IF direction = "bullish" THEN "call" ELSE "put")

Call(op, exp, symbol) == [op |-> op, exp |-> exp, symbol |-> symbol]

\* No call of capByVolumeKeepingPinnedMap / Record is under way.
CapIdle ==
    /\ capSnapshot = <<>>
    /\ capMaxSymbols = 0
    /\ capPinned = <<>>
    /\ capMapResult = <<>>
    /\ capRecordResult = <<>>
    /\ capPc = "idle"

Init ==
    /\ config \in Configs
    /\ direction \in Directions
    /\ equity \in Equities
    /\ pc = "start"
    /\ expirations = <<>>
    /\ today = 0
    /\ validExpirations = <<>>
    /\ bestExpiration = -1
    /\ chain = NoChain
    /\ contracts = <<>>
    /\ snapshot = NoUnderlying
    /\ stockPrice = 0
    /\ targetStrike500 = 0
    /\ sortedContracts = <<>>
    /\ idx = 0
    /\ result = Pending
    /\ log = <<>>
    /\ calls = <<>>
    /\ returned = 0
    /\ failed = "none"
    /\ probed = <<>>
    /\ CapIdle

\* ---------------------------------------------------------------- actions

\* The invocation ends: `return res` after the given log events.
Return(res, events) ==
    /\ pc' = "done"
    /\ result' = res
    /\ log' = log \o events
    /\ calls' = calls

\* (variant: the catch block logs and rethrows)
CatchRethrows == Thrown

\* What the catch block hands to the caller.
CatchResult == NotFound

\* catch (error) { ctx.log("Options", "error", ...); return null; }
Caught == Return(CatchResult, <<"error">>)

\* The invocation issues a provider call and suspends on it.
Await(call, at) ==
    /\ pc' = at
    /\ calls' = Append(calls, call)
    /\ result' = result
    /\ log' = log

\* (variant: the switch is tested inside the try block, after the providers
\* are created)
InvokeSwitchAfterProviders ==
    /\ pc = "start"
    /\ UNCHANGED <<inputs, expirations, today, validExpirations, bestExpiration,
                   chain, contracts, snapshot, stockPrice, targetStrike500,
                   sortedContracts, idx, returned, probed, capVars>>
    /\ \E created \in BOOLEAN :
          IF ~created
          THEN Caught /\ failed' = "createAlpacaProviders"
          ELSE IF ~config.options_enabled
               THEN Return(NotFound, <<>>) /\ failed' = failed
               ELSE Await(Call("getExpirations", -1, <<>>), "awaitExpirations")
                    /\ failed' = failed

\* if (!ctx.config.options_enabled) return null;
\* createAlpacaProviders(ctx.env); await alpaca.options.getExpirations(symbol)
Invoke ==
    /\ pc = "start"
    /\ UNCHANGED <<inputs, expirations, today, validExpirations, bestExpiration,
                   chain, contracts, snapshot, stockPrice, targetStrike500,
                   sortedContracts, idx, returned, probed, capVars>>
    /\ IF ~config.options_enabled
       THEN Return(NotFound, <<>>) /\ failed' = failed
       ELSE \E created \in BOOLEAN :
                IF created
                THEN Await(Call("getExpirations", -1, <<>>), "awaitExpirations")
                     /\ failed' = failed
                ELSE Caught /\ failed' = "createAlpacaProviders"

\* getExpirations settles: lines 34-61
ExpirationsSettle ==
    /\ pc = "awaitExpirations"
    /\ returned' = returned + 1
    /\ UNCHANGED <<inputs, chain, contracts, snapshot, stockPrice,
                   targetStrike500, sortedContracts, idx, probed, capVars>>
    /\ \/ /\ failed' = "getExpirations"
          /\ Caught
          /\ UNCHANGED <<expirations, today, validExpirations, bestExpiration>>
       \/ \E exps \in ExpirationLists, now \in Clock :
             /\ failed' = failed
             /\ expirations' = exps
             /\ IF exps = <<>>
                THEN /\ Return(NotFound, <<"no_expirations">>)
                     /\ UNCHANGED <<today, validExpirations, bestExpiration>>
                ELSE /\ today' = now
                     /\ validExpirations' = ValidExpirations(exps, now, config)
                     /\ IF validExpirations' = <<>>
                        THEN /\ Return(NotFound, <<"no_valid_expirations">>)
                             /\ bestExpiration' = bestExpiration
                        ELSE /\ bestExpiration' =
                                    BestExpiration(validExpirations', now, config)
                             /\ Await(Call("getChain", bestExpiration', <<>>),
                                      "awaitChain")

\* getChain settles: lines 61-73
ChainSettle ==
    /\ pc = "awaitChain"
    /\ returned' = returned + 1
    /\ UNCHANGED <<inputs, expirations, today, validExpirations, bestExpiration,
                   snapshot, stockPrice, targetStrike500, sortedContracts, idx,
                   probed, capVars>>
    /\ \/ /\ failed' = "getChain"
          /\ Caught
          /\ UNCHANGED <<chain, contracts>>
       \/ /\ failed' = failed
          /\ Return(NotFound, <<"chain_failed">>)
          /\ UNCHANGED <<chain, contracts>>
       \/ \E ch \in ChainsFor(bestExpiration) :
             /\ failed' = failed
             /\ chain' = ch
             /\ contracts' = ContractsOf(ch, direction)
             /\ IF contracts' = <<>>
                THEN Return(NotFound, <<"no_contracts">>)
                ELSE Await(Call("getSnapshot", -1, <<>>), "awaitSnapshot")

\* (variant: another valid expiration is tried when the loop finds nothing)
ExhaustedBacktracks ==
    IF \E i \in 1..Len(validExpirations) : validExpirations[i] # bestExpiration
    THEN Await(Call("getChain",
                    validExpirations[CHOOSE i \in 1..Len(validExpirations) :
                                        validExpirations[i] # bestExpiration],
                    <<>>),
               "awaitChain")
    ELSE Return(NotFound, <<>>)

\* The loop is past its last candidate: `return null` behind the loop.
Exhausted == Return(NotFound, <<>>)

\* Head of `for (const contract of sortedContracts.slice(0, 5))` at position
\* i: the snapshot of the i-th candidate is requested, if there is one.
Probe(sorted, i) ==
    IF i <= Len(Candidates(sorted))
    THEN Await(Call("getOptionSnapshot", -1, Candidates(sorted)[i].symbol),
               "awaitOptSnapshot")
    ELSE Exhausted

\* (variant: no `if (!optSnapshot) continue`, reading greeks of null throws)
ProbeOutcomeNoNullCheck(snap, eq, cfg) ==
    IF ~snap.present THEN "throw"
    ELSE IF Rejected(snap, eq, cfg) THEN "skip"
    ELSE "select"

\* The loop body on a settled snapshot: `continue`, the `return {...}`, or
\* an exception raised by the body itself.
ProbeOutcome(snap, eq, cfg) ==
    IF ~snap.present THEN "skip"
    ELSE IF Rejected(snap, eq, cfg) THEN "skip"
    ELSE "select"

\* (variant: the match is kept and the loop goes on fetching)
SelectAndContinue(contract, snap) ==
    /\ result' = Selected(contract, snap)
    /\ log' = Append(log, "contract_selected")
    /\ IF idx < Len(Candidates(sortedContracts))
       THEN /\ pc' = "awaitOptSnapshot"
            /\ calls' = Append(calls,
                   Call("getOptionSnapshot", -1,
                        Candidates(sortedContracts)[idx + 1].symbol))
       ELSE /\ pc' = "done"
            /\ calls' = calls

\* ctx.log("Options", "contract_selected", ...); return {...}
SelectAndStop(contract, snap) ==
    Return(Selected(contract, snap), <<"contract_selected">>)

\* marketData.getSnapshot settles, with one of the snapshots offered:
\* lines 73-88
SnapshotSettleFrom(offered) ==
    /\ pc = "awaitSnapshot"
    /\ returned' = returned + 1
    /\ UNCHANGED <<inputs, expirations, today, validExpirations, bestExpiration,
                   chain, contracts, probed, capVars>>
    /\ \E threw \in BOOLEAN :
       \E snap \in IF threw THEN {NoUnderlying}
                            ELSE offered \cup {NoUnderlying} :
          \* .catch(() => null)
          /\ failed' = IF threw THEN "getSnapshot" ELSE failed
          /\ snapshot' = snap
          /\ stockPrice' = StockPrice(snap)
          /\ IF stockPrice' = 0
             THEN /\ Return(NotFound, <<>>)
                  /\ UNCHANGED <<targetStrike500, sortedContracts, idx>>
             ELSE /\ targetStrike500' =
                        TargetStrike500(stockPrice', direction, config)
                  /\ sortedContracts' =
                        SortedContracts(contracts, targetStrike500')
                  /\ idx' = 1
                  /\ Probe(sortedContracts', 1)

SnapshotSettle == SnapshotSettleFrom(UnderlyingSnapshots)

\* options.getSnapshot settles for the candidate at idx, with one of the
\* snapshots offered: lines 88-131
OptSnapshotSettleFrom(offered) ==
    /\ pc = "awaitOptSnapshot"
    /\ returned' = returned + 1
    /\ UNCHANGED <<inputs, expirations, today, validExpirations, bestExpiration,
                   chain, contracts, snapshot, stockPrice, targetStrike500,
                   sortedContracts, capVars>>
    /\ LET contract == Candidates(sortedContracts)[idx] IN
       \/ /\ failed' = "getOptionSnapshot"
          /\ Caught
          /\ UNCHANGED <<idx, probed>>
       \/ \E snap \in offered \cup {NoOptSnap} :
             /\ failed' = failed
             /\ probed' = Append(probed, [symbol |-> contract.symbol,
                                          snap |-> snap])
             /\ LET outcome == ProbeOutcome(snap, equity, config) IN
                CASE outcome = "skip" ->
                        idx' = idx + 1 /\ Probe(sortedContracts, idx + 1)
                  [] outcome = "select" ->
                        idx' = idx /\ SelectAndStop(contract, snap)
                  [] OTHER ->
                        idx' = idx /\ Caught

OptSnapshotSettle == OptSnapshotSettleFrom(OptSnapshots)

Next ==
    \/ Invoke
    \/ ExpirationsSettle
    \/ ChainSettle
    \/ SnapshotSettle
    \/ OptSnapshotSettle

Spec == Init /\ [][Next]_vars

\* The invocation on the wider market, from the point where it has chosen an
\* expiration, received a chain with contracts on both sides and waits for
\* the snapshot of the underlying.
InitMarket ==
    /\ config \in MarketConfigs
    /\ direction \in Directions
    /\ equity \in MarketEquities
    /\ pc = "awaitSnapshot"
    /\ expirations = <<2>>
    /\ today = 0
    /\ validExpirations = <<2>>
    /\ bestExpiration = 2
    /\ \E n \in 1..MarketChainLen :
          chain = [calls |-> Side("call", 2, n), puts |-> Side("put", 2, n)]
    /\ contracts = ContractsOf(chain, direction)
    /\ snapshot = NoUnderlying
    /\ stockPrice = 0
    /\ targetStrike500 = 0
    /\ sortedContracts = <<>>
    /\ idx = 0
    /\ result = Pending
    /\ log = <<>>
    /\ calls = <<Call("getExpirations", -1, <<>>), Call("getChain", 2, <<>>),
                 Call("getSnapshot", -1, <<>>)>>
    /\ returned = 2
    /\ failed = "none"
    /\ probed = <<>>
    /\ CapIdle

MarketSnapshotSettle == SnapshotSettleFrom(MarketUnderlyingSnapshots)

MarketOptSnapshotSettle == OptSnapshotSettleFrom(MarketOptSnapshots)

NextMarket ==
    \/ MarketSnapshotSettle
    \/ MarketOptSnapshotSettle

SpecMarket == InitMarket /\ [][NextMarket]_vars

\* The invocation under unchecked quotes, from the point where it waits for
\* the snapshot of the underlying.
InitQuotes ==
    /\ config \in QuoteConfigs
    /\ direction \in Directions
    /\ equity \in MarketEquities
    /\ pc = "awaitSnapshot"
    /\ expirations = <<2>>
    /\ today = 0
    /\ validExpirations = <<2>>
    /\ bestExpiration = 2
    /\ \E n \in 1..MarketChainLen :
          chain = [calls |-> Side("call", 2, n), puts |-> Side("put", 2, n)]
    /\ contracts = ContractsOf(chain, direction)
    /\ snapshot = NoUnderlying
    /\ stockPrice = 0
    /\ targetStrike500 = 0
    /\ sortedContracts = <<>>
    /\ idx = 0
    /\ result = Pending
    /\ log = <<>>
    /\ calls = <<Call("getExpirations", -1, <<>>), Call("getChain", 2, <<>>),
                 Call("getSnapshot", -1, <<>>)>>
    /\ returned = 2
    /\ failed = "none"
    /\ probed = <<>>
    /\ CapIdle

QuoteSnapshotSettle == SnapshotSettleFrom(UnderlyingSnapshots)

QuoteOptSnapshotSettle == OptSnapshotSettleFrom(QuoteOptSnapshots)

NextQuotes ==
    \/ QuoteSnapshotSettle
    \/ QuoteOptSnapshotSettle

SpecQuotes == InitQuotes /\ [][NextQuotes]_vars

\* The two cap functions applied, one after the other, to one snapshot (the
\* Record holding the entries of the Map), one cap and one list of pinned
\* symbols; the selector is not invoked.
InitCap ==
    /\ config = CHOOSE c \in Configs : ~c.options_enabled
    /\ direction = "bullish"
    /\ equity = CHOOSE e \in Equities : TRUE
    /\ pc = "start"
    /\ expirations = <<>>
    /\ today = 0
    /\ validExpirations = <<>>
    /\ bestExpiration = -1
    /\ chain = NoChain
    /\ contracts = <<>>
    /\ snapshot = NoUnderlying
    /\ stockPrice = 0
    /\ targetStrike500 = 0
    /\ sortedContracts = <<>>
    /\ idx = 0
    /\ result = Pending
    /\ log = <<>>
    /\ calls = <<>>
    /\ returned = 0
    /\ failed = "none"
    /\ probed = <<>>
    /\ capSnapshot \in CapSnapshots
    /\ capMaxSymbols \in 0..MaxCap
    /\ capPinned \in PinnedLists(MaxPinned)
    /\ capMapResult = <<>>
    /\ capRecordResult = <<>>
    /\ capPc = "start"

CapMap ==
    /\ capPc = "start"
    /\ capMapResult' =
          capByVolumeKeepingPinnedMap(capSnapshot, capMaxSymbols, capPinned)
    /\ capPc' = "mapDone"
    /\ UNCHANGED <<config, direction, equity, pc, expirations, today,
                   validExpirations, bestExpiration, chain, contracts,
                   snapshot, stockPrice, targetStrike500, sortedContracts,
                   idx, result, log, calls, returned, failed, probed,
                   capSnapshot, capMaxSymbols, capPinned, capRecordResult>>

CapRecord ==
    /\ capPc = "mapDone"
    /\ capRecordResult' =
          capByVolumeKeepingPinnedRecord(capSnapshot, capMaxSymbols, capPinned)
    /\ capPc' = "done"
    /\ UNCHANGED <<config, direction, equity, pc, expirations, today,
                   validExpirations, bestExpiration, chain, contracts,
                   snapshot, stockPrice, targetStrike500, sortedContracts,
                   idx, result, log, calls, returned, failed, probed,
                   capSnapshot, capMaxSymbols, capPinned, capMapResult>>

NextCap ==
    \/ CapMap
    \/ CapRecord

SpecCap == InitCap /\ [][NextCap]_vars

\* -------------------------------------------------------------- type check

TypeOK ==
    /\ pc \in {"start", "awaitExpirations", "awaitChain", "awaitSnapshot",
               "awaitOptSnapshot", "done"}
    /\ result.kind \in {"pending", "NotFound", "Selected", "thrown"}
    /\ idx \in 0..(MaxProbes + 1)

\* ------------------------------------------------------- properties: tools

\* Number of provider calls of one kind issued so far.
CountOp(op) == Cardinality({i \in 1..Len(calls) : calls[i].op = op})

AwaitStates ==
    {"awaitExpirations", "awaitChain", "awaitSnapshot", "awaitOptSnapshot"}

\* min_dte <= DTE <= max_dte, DTE as the selector computes it
DteInWindow(exp) ==
    /\ config.options_min_dte <= DTE(exp, today)
    /\ DTE(exp, today) <= config.options_max_dte

\* 2 * |DTE - (min_dte + max_dte) / 2|
MidpointDistance2(exp) ==
    Abs(2 * DTE(exp, today) - (config.options_min_dte + config.options_max_dte))

\* A snapshot that passes every gate: delta present and in band, nonzero bid
\* and ask, spread <= 10 %, maxContracts >= 1.
PassesAllGates(snap) ==
    /\ snap.present
    /\ snap.hasDelta
    /\ config.options_min_delta <= Abs(snap.delta)
    /\ Abs(snap.delta) <= config.options_max_delta
    /\ snap.hasQuote /\ snap.bid # 0 /\ snap.ask # 0
    /\ IF snap.ask > 0 THEN 10 * (snap.ask - snap.bid) <= snap.ask
                       ELSE 10 * (snap.ask - snap.bid) >= snap.ask
    /\ LET n == MaxContracts(snap, equity, config)
       IN  ~n.nan /\ (n.inf = 1 \/ (n.inf = 0 /\ n.v >= 1))

\* The first five ranked contracts.
FirstFive == SubSeq(sortedContracts, 1, Min(5, Len(sortedContracts)))

\* Every candidate of the loop has been examined and rejected.
AllExamined ==
    /\ Len(probed) >= 1
    /\ Len(probed) = Len(FirstFive)
    /\ \A j \in 1..Len(probed) : ~PassesAllGates(probed[j].snap)

\* Position in the chain side of the contract with this symbol.
ChainIndex(symbol) ==
    CHOOSE p \in 1..Len(contracts) : contracts[p].symbol = symbol

\* Strike of a contract of the chain, by its symbol.
StrikeOf(symbol) == contracts[ChainIndex(symbol)].strike

\* 500 * |strike - targetStrike| of the contract a call asks about
CallDistance500(call) ==
    Abs(500 * StrikeOf(call.symbol)
          - TargetStrike500(stockPrice, direction, config))

\* ------------------------------------------------------------------ claims

C2_FailedFetchSkipsCandidate ==
    [][(/\ pc = "awaitOptSnapshot"
        /\ returned' = returned + 1
        /\ idx < Len(FirstFive)
        /\ \/ failed' = "getOptionSnapshot"
           \/ /\ Len(probed') = Len(probed) + 1
              /\ ~probed'[Len(probed')].snap.present)
       => /\ pc' = "awaitOptSnapshot"
          /\ idx' = idx + 1
          /\ calls' = Append(calls, Call("getOptionSnapshot", -1,
                                         FirstFive[idx + 1].symbol))]_vars

\* C2 (amended): a candidate whose snapshot retrieval returns nothing is
\* skipped alone and the next ranked candidate of the first five is examined
\* next; a snapshot retrieval that fails (throws) ends the invocation with
\* NotFound and the "error" event, and no later candidate is examined.
C2_MissingSnapshotSkipsCandidate ==
    [][(pc = "awaitOptSnapshot" /\ returned' = returned + 1)
       => /\ (/\ idx < Len(FirstFive)
              /\ Len(probed') = Len(probed) + 1
              /\ ~probed'[Len(probed')].snap.present)
             => /\ pc' = "awaitOptSnapshot"
                /\ idx' = idx + 1
                /\ calls' = Append(calls, Call("getOptionSnapshot", -1,
                                               FirstFive[idx + 1].symbol))
          /\ failed' = "getOptionSnapshot"
             => /\ pc' = "done"
                /\ result' = NotFound
                /\ calls' = calls
                /\ log' = Append(log, "error")]_vars

\* A candidate without snapshot was skipped and a later one was selected.
C2_Witness ==
    /\ result.kind = "Selected"
    /\ \E i \in 1..(Len(probed) - 1) : ~probed[i].snap.present

\* C3: when all external calls succeed, the result is the earliest-ranked
\* candidate of the first five ranked contracts that passes every gate, and
\* NotFound when none of the first five passes.
C3_FirstPassingOfFirstFive ==
    (pc = "done" /\ failed = "none" /\ stockPrice # 0) =>
        /\ Len(probed) <= Len(FirstFive)
        /\ \A j \in 1..Len(probed) : probed[j].symbol = FirstFive[j].symbol
        /\ \A j \in 1..(Len(probed) - 1) : ~PassesAllGates(probed[j].snap)
        /\ result.kind = "Selected" =>
              /\ Len(probed) >= 1
              /\ result.symbol = FirstFive[Len(probed)].symbol
              /\ PassesAllGates(probed[Len(probed)].snap)
        /\ result.kind # "Selected" =>
              /\ result = NotFound
              /\ Len(probed) = Len(FirstFive)
              /\ \A j \in 1..Len(probed) : ~PassesAllGates(probed[j].snap)

\* Five candidates were rejected while a sixth ranked contract exists.
C3_Witness ==
    /\ pc = "done"
    /\ failed = "none"
    /\ result = NotFound
    /\ Len(probed) = 5
    /\ Len(sortedContracts) >= 6

\* C4: an invocation issues at most one getExpirations, one getChain, one
\* underlying snapshot and five contract snapshot calls, 8 calls at most.
C4_CallBudget ==
    /\ CountOp("getExpirations") <= 1
    /\ CountOp("getChain") <= 1
    /\ CountOp("getSnapshot") <= 1
    /\ CountOp("getOptionSnapshot") <= 5
    /\ Len(calls) <= 8

\* The budget is used up on a chain of more than five contracts.
C4_Witness ==
    /\ Len(calls) = 8
    /\ Len(contracts) > 5

\* C5: once a candidate passes all gates no further contract snapshot is
\* fetched: the contract snapshot fetched last is that of the returned
\* contract.
C5_LastFetchIsReturned ==
    result.kind = "Selected" =>
        /\ pc = "done"
        /\ calls # <<>>
        /\ calls[Len(calls)] =
              Call("getOptionSnapshot", -1, result.symbol)

\* A contract was selected while further candidates were left.
C5_Witness ==
    /\ result.kind = "Selected"
    /\ idx < Len(FirstFive)

\* C6: the fetches of an invocation are issued one at a time, in the order
\* getExpirations, getChain, underlying snapshot, contract snapshots in rank
\* order (nearest strike first); at most one fetch is outstanding.
C6_SequentialFixedOrder ==
    /\ Len(calls) - returned = (IF pc \in AwaitStates THEN 1 ELSE 0)
    /\ \A i \in 1..Len(calls) :
          calls[i].op = CASE i = 1 -> "getExpirations"
                          [] i = 2 -> "getChain"
                          [] i = 3 -> "getSnapshot"
                          [] OTHER -> "getOptionSnapshot"
    /\ \A i \in 4..Len(calls) :
          /\ calls[i].symbol = sortedContracts[i - 3].symbol
          /\ \A j \in (i + 1)..Len(calls) :
                CallDistance500(calls[i]) <= CallDistance500(calls[j])

\* Two contract snapshots were fetched against the order of the chain.
C6_Witness ==
    /\ Len(calls) >= 5
    /\ StrikeOf(calls[4].symbol) > StrikeOf(calls[5].symbol)

\* C7: when the provider returns no expiration, or none with a DTE in
\* [min_dte, max_dte], the result is NotFound and no getChain, underlying
\* snapshot or contract snapshot call is made.
C7_NoValidExpirationStops ==
    (/\ returned >= 1
     /\ failed # "getExpirations"
     /\ \A i \in 1..Len(expirations) : ~DteInWindow(expirations[i]))
    => /\ pc = "done"
       /\ result = NotFound
       /\ calls = <<Call("getExpirations", -1, <<>>)>>

\* Expirations were returned, none of them in the window.
C7_Witness ==
    /\ pc = "done"
    /\ Len(expirations) >= 2
    /\ \A i \in 1..Len(expirations) : ~DteInWindow(expirations[i])

\* C8: one expiration is chosen per invocation and its DTE lies in
\* [min_dte, max_dte]: so does the expiration passed to getChain and the
\* expiration of a returned contract.
C8_ChosenExpirationInWindow ==
    /\ CountOp("getChain") <= 1
    /\ \A i \in 1..Len(calls) :
          calls[i].op = "getChain" =>
              /\ calls[i].exp = bestExpiration
              /\ DteInWindow(calls[i].exp)
    /\ result.kind = "Selected" =>
          /\ result.expiration = bestExpiration
          /\ result.symbol[2] = bestExpiration
          /\ DteInWindow(result.expiration)

\* A contract was returned although an expiration short of the window was
\* offered.
C8_Witness ==
    /\ result.kind = "Selected"
    /\ \E i \in 1..Len(expirations) :
          DTE(expirations[i], today) < config.options_min_dte

\* C9: the selected expiration minimizes |DTE - (min_dte + max_dte) / 2|
\* (midpoint not rounded) over the eligible expirations, the earliest in
\* input order among those at the minimal distance.
C9_ClosestToMidpoint ==
    bestExpiration # -1 =>
        LET eligible == {i \in 1..Len(expirations) :
                            DteInWindow(expirations[i])}
        IN  \E b \in eligible :
               /\ expirations[b] = bestExpiration
               /\ \A i \in eligible :
                     /\ MidpointDistance2(expirations[b])
                           <= MidpointDistance2(expirations[i])
                     /\ MidpointDistance2(expirations[b])
                           = MidpointDistance2(expirations[i]) => b <= i

\* Two eligible expirations tie at the minimal distance.
C9_Witness ==
    /\ bestExpiration # -1
    /\ \E i \in 1..Len(expirations) :
          /\ expirations[i] # bestExpiration
          /\ DteInWindow(expirations[i])
          /\ MidpointDistance2(expirations[i])
                = MidpointDistance2(bestExpiration)

\* C10: no backtracking: when every examined candidate of the chosen
\* expiration is rejected the invocation ends with NotFound, having fetched
\* one chain, that of the one expiration chosen.
C10_NoBacktracking ==
    (failed = "none" /\ AllExamined) =>
        /\ pc = "done"
        /\ result = NotFound
        /\ CountOp("getChain") = 1
        /\ calls[2] = Call("getChain", bestExpiration, <<>>)
        /\ \A j \in 1..Len(probed) : probed[j].symbol[2] = bestExpiration

\* All candidates were rejected while another expiration was in the window.
C10_Witness ==
    /\ failed = "none"
    /\ AllExamined
    /\ Len(validExpirations) >= 2
    /\ \E i \in 1..Len(expirations) :
          DteInWindow(expirations[i]) /\ expirations[i] # bestExpiration

\* The snapshot received last and the loop position it was received at.
LastProbed == probed[Len(probed)]

\* The liquidity gate as claimed: bid 0, ask 0, quote missing, or
\* (ask - bid) / ask > 0.10.
Illiquid(snap) ==
    \/ ~snap.hasQuote
    \/ snap.bid = 0
    \/ snap.ask = 0
    \/ (snap.ask > 0 /\ 10 * (snap.ask - snap.bid) > snap.ask)
    \/ (snap.ask < 0 /\ 10 * (snap.ask - snap.bid) < snap.ask)

\* The j-th candidate was rejected and the loop went on to the next one, if
\* the first five hold one.
SkippedToNext(j) ==
    /\ ~(result.kind = "Selected" /\ j = Len(probed))
    /\ (j < Len(FirstFive) /\ failed = "none") =>
          /\ Len(calls) >= 3 + j + 1
          /\ calls[3 + j + 1] =
                Call("getOptionSnapshot", -1, FirstFive[j + 1].symbol)

\* C11: a returned contract carries the delta of its snapshot, sign kept,
\* with min_delta <= |delta| <= max_delta; a candidate whose snapshot has no
\* delta is rejected, never taken as delta 0.
C11_DeltaPresentAndInBand ==
    /\ result.kind = "Selected" =>
          /\ LastProbed.symbol = result.symbol
          /\ LastProbed.snap.hasDelta
          /\ result.hasDelta
          /\ result.delta = LastProbed.snap.delta
          /\ config.options_min_delta <= Abs(result.delta)
          /\ Abs(result.delta) <= config.options_max_delta
    /\ \A j \in 1..Len(probed) :
          (probed[j].snap.present /\ ~probed[j].snap.hasDelta)
              => SkippedToNext(j)

\* A candidate without delta was skipped and a contract of negative delta
\* was returned.
C11_Witness ==
    /\ result.kind = "Selected"
    /\ result.delta < 0
    /\ Len(probed) = 2
    /\ probed[1].snap = OptSnap(FALSE, 0, TRUE, 470, 490)

\* C12: a candidate with bid 0, ask 0, no quote or a spread fraction over
\* 0.10 is never returned; when the top-ranked candidate fails this gate the
\* next ranked candidate is tried.
C12_IlliquidNeverReturned ==
    /\ result.kind = "Selected" =>
          /\ LastProbed.symbol = result.symbol
          /\ ~Illiquid(LastProbed.snap)
    /\ \A j \in 1..Len(probed) :
          (probed[j].snap.present /\ Illiquid(probed[j].snap))
              => SkippedToNext(j)

\* The top-ranked candidate had a spread of 50 / 490 and the second was
\* returned.
C12_Witness ==
    /\ result.kind = "Selected"
    /\ Len(probed) = 2
    /\ probed[1].snap = OptSnap(TRUE, 50, TRUE, 440, 490)
    /\ result.symbol = sortedContracts[2].symbol

\* C13: a returned contract has mid_price = (bid + ask) / 2 and
\* max_contracts = floor(equity * max_pct / (mid_price * 100)) >= 1; a
\* candidate with max_contracts 0 is rejected and the next one is tried; with
\* equity 10000 and 5 %, mid 4.80 gives 1 contract and mid 6.00 is rejected.
C13_SizedByBudget ==
    /\ result.kind = "Selected" =>
          /\ LastProbed.symbol = result.symbol
          /\ result.mid_price2 = LastProbed.snap.bid + LastProbed.snap.ask
          /\ ~result.max_contracts.nan
          /\ result.max_contracts.inf = 0
          /\ result.max_contracts.v >= 1
          \* n = floor(budget / cost): n * cost <= budget < (n + 1) * cost,
          \* cost = mid_price2 / 2 dollars, budget = equity * pct / 100
          /\ result.max_contracts.v * result.mid_price2 * 100
                <= 2 * equity * config.options_max_pct_per_trade
          /\ 2 * equity * config.options_max_pct_per_trade
                < (result.max_contracts.v + 1) * result.mid_price2 * 100
          /\ (equity = 10000 /\ result.mid_price2 = 960)
                => result.max_contracts.v = 1
    /\ \A j \in 1..Len(probed) :
          (/\ probed[j].snap.present
           /\ probed[j].snap.hasQuote
           /\ probed[j].snap.bid + probed[j].snap.ask > 0
           /\ 2 * equity * config.options_max_pct_per_trade
                 < (probed[j].snap.bid + probed[j].snap.ask) * 100)
              => SkippedToNext(j)

\* With equity 10000 a candidate of mid 6.00 was skipped and one of mid 4.80
\* was returned with one contract.
C13_Witness ==
    /\ result.kind = "Selected"
    /\ equity = 10000
    /\ Len(probed) = 2
    /\ probed[1].snap = ExpensiveSnap
    /\ result.mid_price2 = 960
    /\ result.max_contracts.v = 1

\* C15: targetStrike = underlyingPrice * (1 - (targetDelta - 0.5) * 0.2) for
\* bullish and underlyingPrice * (1 + (targetDelta - 0.5) * 0.2) for bearish:
\* 96 for bullish, 0.7 and 100; the underlying price for targetDelta 0.5.
C15_TargetStrike ==
    (returned >= 3 /\ stockPrice # 0) =>
        /\ direction = "bullish" =>
              targetStrike500 = 500 * stockPrice
                  - stockPrice * (config.options_target_delta - 50)
        /\ direction = "bearish" =>
              targetStrike500 = 500 * stockPrice
                  + stockPrice * (config.options_target_delta - 50)
        /\ (/\ direction = "bullish"
            /\ config.options_target_delta = 70
            /\ stockPrice = 100) => targetStrike500 = 500 * 96
        /\ config.options_target_delta = 50 =>
              targetStrike500 = 500 * stockPrice

\* The target 96 was computed for bullish, 0.7 and 100.
C15_Witness ==
    /\ direction = "bullish"
    /\ config.options_target_delta = 70
    /\ stockPrice = 100
    /\ targetStrike500 = 48000
    /\ Len(probed) >= 1

\* The price sources of a snapshot of the underlying in their priority,
\* 0 for an absent one.
PriceSources(snap) ==
    <<IF snap.present /\ snap.hasTrade THEN snap.trade ELSE 0,
      IF snap.present /\ snap.hasQuote THEN snap.ask ELSE 0,
      IF snap.present /\ snap.hasQuote THEN snap.bid ELSE 0>>

\* The first non-zero source, 0 if there is none.
FirstNonZero(sources) ==
    IF \E i \in 1..Len(sources) : sources[i] # 0
    THEN sources[CHOOSE i \in 1..Len(sources) :
                    /\ sources[i] # 0
                    /\ \A j \in 1..(i - 1) : sources[j] = 0]
    ELSE 0

\* C16: the underlying price is the first non-zero, present value among
\* trade price, quote ask, quote bid; when all are zero or missing, or the
\* fetch fails, the selection ends with NotFound and no contract snapshot is
\* fetched.
C16_UnderlyingPriceFallback ==
    returned >= 3 =>
        /\ stockPrice = FirstNonZero(PriceSources(snapshot))
        /\ (FirstNonZero(PriceSources(snapshot)) = 0 \/ failed = "getSnapshot")
              => /\ pc = "done"
                 /\ result = NotFound
                 /\ CountOp("getOptionSnapshot") = 0

\* The ask was used although a bid was quoted, the trade price being 0.
C16_Witness ==
    /\ returned >= 3
    /\ snapshot = Underlying(TRUE, 0, TRUE, 98, 97)
    /\ stockPrice = 98
    /\ CountOp("getOptionSnapshot") >= 1

\* 500 * |strike - targetStrike| of the p-th contract of the chain side.
ChainDistance500(p) == Abs(500 * contracts[p].strike - targetStrike500)

\* Positive-strike contracts a stable ascending sort by distance puts in
\* front of the p-th: the nearer ones and the equally near, earlier ones.
RankedBefore(p) ==
    LET d == ChainDistance500(p)
    IN  {q \in 1..Len(contracts) :
            /\ contracts[q].strike > 0
            /\ \/ ChainDistance500(q) < d
               \/ ChainDistance500(q) = d /\ q < p}

\* C14: candidates are probed in the order of a stable sort, ascending by
\* |strike - targetStrike|, of the chain contracts with strike > 0; a
\* contract of non-positive strike is never probed or returned, and contracts
\* at equal distance are probed in their order in the chain.
C14_StableSortByDistance ==
    /\ \A i \in 4..Len(calls) :
          \E p \in 1..Len(contracts) :
             /\ contracts[p].symbol = calls[i].symbol
             /\ contracts[p].strike > 0
             /\ Cardinality(RankedBefore(p)) = i - 4
    /\ result.kind = "Selected" => result.strike > 0

\* Two contracts at the same distance from the target were probed one after
\* the other, and the chain lists a contract of strike 0.
C14_Witness ==
    /\ Len(calls) >= 5
    /\ ChainDistance500(ChainIndex(calls[4].symbol))
          = ChainDistance500(ChainIndex(calls[5].symbol))
    /\ contracts[1].strike = 0

\* Whole days from the calendar day of `now` to the expiration day.
DayDTE(exp) == exp - (today \div TicksPerDay)

\* min_dte <= DTE <= max_dte at day granularity
DayInWindow(exp) ==
    /\ config.options_min_dte <= DayDTE(exp)
    /\ DayDTE(exp) <= config.options_max_dte

\* 2 * |DTE - (min_dte + max_dte) / 2| at day granularity
DayDistance2(exp) ==
    Abs(2 * DayDTE(exp) - (config.options_min_dte + config.options_max_dte))

\* C17: the DTE the expiration selector uses is the whole number of days
\* from today's midnight to the expiration's midnight, so the time of day of
\* the invocation changes neither an expiration's DTE nor the expiration
\* chosen.
C17_DayGranularDTE ==
    /\ \A i \in 1..Len(expirations) :
          DTE(expirations[i], today) = DayDTE(expirations[i])
    /\ (returned >= 1 /\ failed # "getExpirations") =>
          /\ validExpirations = SelectSeq(expirations, DayInWindow)
          /\ bestExpiration # -1 =>
                \E b \in 1..Len(expirations) :
                   /\ expirations[b] = bestExpiration
                   /\ DayInWindow(bestExpiration)
                   /\ \A i \in 1..Len(expirations) :
                         DayInWindow(expirations[i]) =>
                            /\ DayDistance2(bestExpiration)
                                  <= DayDistance2(expirations[i])
                            /\ DayDistance2(bestExpiration)
                                  = DayDistance2(expirations[i]) => b <= i

\* An invocation made after midnight chose an expiration.
C17_Witness ==
    /\ today % TicksPerDay # 0
    /\ bestExpiration # -1
    /\ Len(validExpirations) < Len(expirations)

\* The option kind the direction asks for.
KindOf(dir) == IF dir = "bullish" THEN "call" ELSE "put"

\* C18: a bullish request probes and returns only contracts of the chain's
\* calls, with option_type 'call'; a bearish request only contracts of the
\* chain's puts, with option_type 'put'; when that side of the chain is
\* empty the result is NotFound.
C18_DirectionDeterminesKind ==
    /\ \A i \in 4..Len(calls) :
          /\ calls[i].symbol[1] = KindOf(direction)
          /\ direction = "bullish" =>
                \E p \in 1..Len(chain.calls) :
                   chain.calls[p].symbol = calls[i].symbol
          /\ direction = "bearish" =>
                \E p \in 1..Len(chain.puts) :
                   chain.puts[p].symbol = calls[i].symbol
    /\ result.kind = "Selected" =>
          /\ result.option_type = KindOf(direction)
          /\ result.symbol[1] = KindOf(direction)
    /\ (/\ returned >= 2
        /\ \/ direction = "bullish" /\ chain.calls = <<>>
           \/ direction = "bearish" /\ chain.puts = <<>>)
       => /\ pc = "done"
          /\ result = NotFound
          /\ Len(calls) = 2

\* A bearish request returned a put from a chain that also lists calls.
C18_Witness ==
    /\ direction = "bearish"
    /\ result.kind = "Selected"
    /\ result.option_type = "put"
    /\ Len(chain.calls) >= 1

\* The pinned symbols the input holds.
PinnedInInput ==
    {capPinned[i] : i \in 1..Len(capPinned)}
       \cap {capSnapshot[j].symbol : j \in 1..Len(capSnapshot)}

\* Volume the input gives for a symbol it holds.
InputVolume(symbol) ==
    (CHOOSE e \in {capSnapshot[j] : j \in 1..Len(capSnapshot)} :
        e.symbol = symbol).value.volume

SymbolsOf(res) == {res[i].symbol : i \in 1..Len(res)}

\* At most maxSymbols entries, each an entry of the input, no key twice, and
\* every pinned symbol of the input when there are at most maxSymbols.
CappedKeepingPinned(res) ==
    /\ Len(res) <= capMaxSymbols
    /\ Cardinality(SymbolsOf(res)) = Len(res)
    /\ \A i \in 1..Len(res) :
          \E j \in 1..Len(capSnapshot) : capSnapshot[j] = res[i]
    /\ Cardinality(PinnedInInput) <= capMaxSymbols
          => PinnedInInput \subseteq SymbolsOf(res)

\* C19 (as stated): capByVolumeKeepingPinnedMap and capByVolumeKeepingPinnedRecord
\* return at most maxSymbols entries, each an entry of the input with its
\* value unchanged, and every pinned symbol the input holds when there are
\* at most maxSymbols of them, whatever its volume.
C19_CappedKeepingPinned ==
    /\ capPc \in {"mapDone", "done"} => CappedKeepingPinned(capMapResult)
    /\ capPc = "done" => CappedKeepingPinned(capRecordResult)

\* The Record version returned an entry the input does not hold, for a pinned
\* name inherited from Object.prototype, where the Map version kept to the
\* input.
C19_EntryNotOfInput ==
    /\ capPc = "done"
    /\ CappedKeepingPinned(capMapResult)
    /\ \E i \in 1..Len(capRecordResult) :
          /\ capRecordResult[i].symbol \in ObjectPrototypeNames
          /\ \A j \in 1..Len(capSnapshot) : capSnapshot[j] # capRecordResult[i]

\* A pinned symbol of the strictly lowest volume was kept by both functions
\* while a symbol of higher volume was dropped.
C19_Witness ==
    /\ capPc = "done"
    /\ Len(capMapResult) = capMaxSymbols
    /\ Len(capSnapshot) > capMaxSymbols
    /\ \E p \in PinnedInInput :
          /\ p \in SymbolsOf(capMapResult)
          /\ p \in SymbolsOf(capRecordResult)
          /\ \A j \in 1..Len(capSnapshot) :
                capSnapshot[j].symbol # p
                   => capSnapshot[j].value.volume > InputVolume(p)

\* C20: when the input holds more pinned symbols than maxSymbols,
\* capByVolumeKeepingPinnedMap returns exactly maxSymbols entries, all of
\* them pinned, and no pinned symbol left out has a strictly higher volume
\* than one that is included.
C20_OnlyTopPinned ==
    (capPc \in {"mapDone", "done"}
       /\ Cardinality(PinnedInInput) > capMaxSymbols) =>
        /\ Len(capMapResult) = capMaxSymbols
        /\ Cardinality(SymbolsOf(capMapResult)) = capMaxSymbols
        /\ SymbolsOf(capMapResult) \subseteq PinnedInInput
        /\ \A out \in PinnedInInput \ SymbolsOf(capMapResult) :
              \A kept \in SymbolsOf(capMapResult) :
                 InputVolume(out) <= InputVolume(kept)

\* Of two pinned symbols the one listed second, of the higher volume, was
\* the only one returned.
C20_Witness ==
    /\ capPc = "done"
    /\ capMaxSymbols = 1
    /\ Len(capPinned) = 2
    /\ Cardinality(PinnedInInput) = 2
    /\ Len(capMapResult) = 1
    /\ capMapResult[1].symbol = capPinned[2]
    /\ InputVolume(capPinned[2]) > InputVolume(capPinned[1])

\* The symbols of the input that are not pinned.
UnpinnedInInput ==
    {capSnapshot[j].symbol : j \in 1..Len(capSnapshot)} \ PinnedInInput

\* C21: once the pinned symbols are kept, capByVolumeKeepingPinnedMap fills
\* the remaining slots with the unpinned symbols of highest volume: an input
\* of more than maxSymbols entries gives exactly maxSymbols entries, and no
\* unpinned symbol left out has a strictly higher volume than an unpinned
\* symbol that is included.
C21_RestFilledByVolume ==
    (capPc \in {"mapDone", "done"} /\ Len(capSnapshot) > capMaxSymbols) =>
        /\ Len(capMapResult) = capMaxSymbols
        /\ Cardinality(SymbolsOf(capMapResult)) = capMaxSymbols
        /\ \A out \in UnpinnedInInput \ SymbolsOf(capMapResult) :
              \A kept \in UnpinnedInInput \cap SymbolsOf(capMapResult) :
                 InputVolume(out) <= InputVolume(kept)

\* A pinned symbol and the unpinned symbol of the higher volume were
\* returned, the unpinned symbol of the lower volume was left out.
C21_Witness ==
    /\ capPc = "done"
    /\ capMaxSymbols = 2
    /\ Len(capSnapshot) = 3
    /\ Cardinality(PinnedInInput) = 1
    /\ PinnedInInput \subseteq SymbolsOf(capMapResult)
    /\ \E out \in UnpinnedInInput \ SymbolsOf(capMapResult) :
          \E kept \in UnpinnedInInput \cap SymbolsOf(capMapResult) :
             InputVolume(out) < InputVolume(kept)

\* The entries of a result as a set: its symbols with their values.
EntriesOf(res) == {res[i] : i \in 1..Len(res)}

\* C22 (as stated): capByVolumeKeepingPinnedRecord is the Record version of
\* capByVolumeKeepingPinnedMap: for the same entries in the same iteration
\* order, the same maxSymbols and the same pinned symbols the two return the
\* same set of symbols with the same values.
C22_RecordEqualsMap ==
    capPc = "done" => EntriesOf(capRecordResult) = EntriesOf(capMapResult)

\* For two entries, cap 1 and the one pinned name "constructor", the Record
\* version returned the inherited property alone and the Map version an entry
\* of the input.
C22_InheritedNamePinned ==
    /\ capPc = "done"
    /\ Len(capSnapshot) = 2
    /\ capMaxSymbols = 1
    /\ capPinned = <<"constructor">>
    /\ SymbolsOf(capRecordResult) = {"constructor"}
    /\ Len(capMapResult) = 1
    /\ SymbolsOf(capMapResult) \subseteq CapSymbols

\* C23: with options_enabled false findBestOptionsContract returns null
\* without issuing any provider call (no getExpirations, getChain or snapshot
\* fetch) and without logging.
C23_DisabledDoesNothing ==
    ~config.options_enabled =>
        /\ calls = <<>>
        /\ log = <<>>
        /\ failed = "none"
        /\ pc \in {"start", "done"}
        /\ pc = "start" => result = Pending
        /\ pc = "done" => result = NotFound

\* A disabled invocation has returned.
C23_Witness ==
    /\ ~config.options_enabled
    /\ pc = "done"
    /\ result = NotFound
    /\ calls = <<>>
    /\ log = <<>>

\* C24: for equity > 0 and max_pct_per_trade >= 0 a returned contract has
\* bid > 0, ask > 0 and mid_price > 0, and its cost fits the budget maximally,
\* max_contracts * mid_price * 100 <= equity * max_pct_per_trade
\* < (max_contracts + 1) * mid_price * 100, also under negative or crossed
\* quotes.
C24_PositiveQuotesMaximalFit ==
    (result.kind = "Selected" /\ equity > 0
        /\ config.options_max_pct_per_trade >= 0) =>
        /\ LastProbed.symbol = result.symbol
        /\ LastProbed.snap.hasQuote
        /\ LastProbed.snap.bid > 0
        /\ LastProbed.snap.ask > 0
        /\ result.mid_price2 > 0
        /\ ~result.max_contracts.nan
        /\ result.max_contracts.inf = 0
        \* in cents: mid_price2 / 2 * 100 per contract, equity * pct budget
        /\ result.max_contracts.v * result.mid_price2 * 50
              <= equity * config.options_max_pct_per_trade
        /\ equity * config.options_max_pct_per_trade
              < (result.max_contracts.v + 1) * result.mid_price2 * 50

\* A candidate quoted at negative prices was passed over and a candidate
\* with a crossed quote (bid above ask) was returned.
C24_Witness ==
    /\ result.kind = "Selected"
    /\ Len(probed) = 2
    /\ probed[1].snap.bid < 0
    /\ probed[1].snap.ask < 0
    /\ probed[1].snap.bid <= probed[1].snap.ask
    /\ LastProbed.snap.bid > LastProbed.snap.ask

====
